---- MODULE Spec2Model ----
(***************************************************************************)
(* Model of the gig-request API (pflaquer/api-go).                         *)
(*                                                                         *)
(* The repository holds two variants of the same program:                  *)
(*   "basic"    - src/main.go           (Request has Email, no filtering)  *)
(*   "supplier" - src/unnamed/part_000  (Request has ClientEmail and       *)
(*                SupplierEmail; GET takes a supplier_email filter)        *)
(* A behaviour of the model is a run of ONE of the two programs: the       *)
(* variable `variant` is fixed by Init and never changes.                  *)
(*                                                                         *)
(* net/http runs every request in its own goroutine.  Every statement of a *)
(* handler that touches the shared state (requests, nextID, mu) is a step  *)
(* of its own, so that the model shows every interleaving the Go scheduler *)
(* can produce.                                                            *)
(***************************************************************************)
EXTENDS Integers, Sequences, FiniteSets, Bags, TLC

\* ---------------------------------------------------------------- bounds
NumHandlers == 2      \* goroutines running at the same time
MaxRecords  == 2      \* creations admitted in one run

\* ------------------------------------------------------- program constants
StatusOK                  == 200
StatusCreated             == 201
StatusBadRequest          == 400
StatusMethodNotAllowed    == 405
StatusInternalServerError == 500

\* ------------------------------------------------------------ input domains
Methods  == {"GET", "POST", "OPTIONS", "DELETE"}

\* The values a request may carry.  In a JSON body "" and 0 also stand for
\* an absent key; 7 and 9 are an "id" and a "created_at" put there by the
\* caller; `clock` holds the readings time.Now() may give.  SeqInputs is used
\* when requests are served one at a time, ConcInputs (a subset) when they
\* are served concurrently.
SeqInputs ==
    [gig_title      |-> {"", " ", "Logo Design"},
     client         |-> {"", "Acme"},
     email          |-> {"", "a@acme.com"},
     supplier_email |-> {"", "s1@x.com", "S1@x.com"},
     details        |-> {"", "vector, two colours"},
     id             |-> {0, 7},
     created_at     |-> {0, 9},
     filter         |-> {"", "s1@x.com", "S1@x.com", "s2@x.com"},
     clock          |-> {1, 2, 3}]

ConcInputs ==
    [gig_title      |-> {"Logo Design"},
     client         |-> {"", "Acme"},
     email          |-> {"a@acme.com"},
     supplier_email |-> {"s1@x.com", "S1@x.com"},
     details        |-> {""},
     id             |-> {7},
     created_at     |-> {9},
     filter         |-> {"", "s1@x.com"},
     clock          |-> {1, 2}]

VARIABLES
    variant,      \* which of the two programs runs
    requests,     \* var requests = []Request{}   (the items of the slice)
    mu,           \* var mu sync.Mutex            (TRUE: locked)
    nextID,       \* var nextID = 1
    now,          \* the last reading of the wall clock (time.Now())
    goroutines,   \* the running handlers: a bag of goroutine contexts
    \* history variables (observations, never read by the program)
    returned,     \* bag of the ids sent back to callers with a 201
    committed     \* the records whose creator has released mu, in that order

vars == <<variant, requests, mu, nextID, now, goroutines, returned, committed>>

\* ------------------------------------------------------------- data model

\* JSON request bodies accepted by the decoder of each variant.  A key that
\* is absent from the body decodes to the zero value, so "" and 0 also stand
\* for "absent".
Bodies(v, in) ==
    IF v = "basic"
    THEN [id : in.id, gig_title : in.gig_title, client : in.client,
          email : in.email, details : in.details, created_at : in.created_at]
    ELSE [id : in.id, gig_title : in.gig_title, client : in.client,
          client_email : in.email, supplier_email : in.supplier_email,
          details : in.details, created_at : in.created_at]

\* The zero value of `var newRequest Request`.
ZeroRequest(v) ==
    IF v = "basic"
    THEN [ID |-> 0, GigTitle |-> "", Client |-> "", Email |-> "",
          Details |-> "", CreatedAt |-> 0]
    ELSE [ID |-> 0, GigTitle |-> "", Client |-> "", ClientEmail |-> "",
          SupplierEmail |-> "", Details |-> "", CreatedAt |-> 0]

\* json.NewDecoder(r.Body).Decode(&newRequest): JSON keys to struct fields.
DecodeRequest(v, b) ==
    IF v = "basic"
    THEN [ID |-> b.id, GigTitle |-> b.gig_title, Client |-> b.client,
          Email |-> b.email, Details |-> b.details, CreatedAt |-> b.created_at]
    ELSE [ID |-> b.id, GigTitle |-> b.gig_title, Client |-> b.client,
          ClientEmail |-> b.client_email, SupplierEmail |-> b.supplier_email,
          Details |-> b.details, CreatedAt |-> b.created_at]

\* json.NewEncoder(w).Encode(newRequest): struct fields to JSON keys.
EncodeRequest(v, r) ==
    IF v = "basic"
    THEN [kind |-> "object",
          fields |-> [id |-> r.ID, gig_title |-> r.GigTitle, client |-> r.Client,
                      email |-> r.Email, details |-> r.Details,
                      created_at |-> r.CreatedAt]]
    ELSE [kind |-> "object",
          fields |-> [id |-> r.ID, gig_title |-> r.GigTitle, client |-> r.Client,
                      client_email |-> r.ClientEmail,
                      supplier_email |-> r.SupplierEmail, details |-> r.Details,
                      created_at |-> r.CreatedAt]]

\* A Go slice is nil or not; encoding/json writes a nil slice as `null` and a
\* non-nil one, empty or not, as an array.
NilSlice == [isNil |-> TRUE, items |-> <<>>]

MakeSlice(items) == [isNil |-> FALSE, items |-> items]

\* Mutant of GoAppend: the slice is started afresh with every element.
GoAppendReset(s, r) == [isNil |-> FALSE, items |-> <<r>>]

GoAppend(s, r) == [isNil |-> FALSE, items |-> Append(s.items, r)]

JSONNull == [kind |-> "null"]

EncodeSlice(v, s) ==
    IF s.isNil
    THEN JSONNull
    ELSE [kind |-> "array",
          items |-> [i \in 1..Len(s.items) |-> EncodeRequest(v, s.items[i])]]

TextBody(msg) == [kind |-> "text", text |-> msg]

\* ------------------------------------------------------- http.ResponseWriter

NoResponse == [status |-> 0, body |-> <<>>, logged |-> FALSE]

\* w.WriteHeader(code): only the first call sets the status line.
WriteHeader(w, code) ==
    IF w.status = 0 THEN [w EXCEPT !.status = code] ELSE w

\* w.Write(chunk): an implicit WriteHeader(200) if none was written.
WriteBody(w, chunk) ==
    [WriteHeader(w, StatusOK) EXCEPT !.body = Append(w.body, chunk)]

\* http.Error(w, msg, code)
HttpError(w, msg, code) == WriteBody(WriteHeader(w, code), TextBody(msg))

\* log.Printf("Error encoding response: %v", err)
LogError(w) == [w EXCEPT !.logged = TRUE]

\* ------------------------------------------------------------ pure helpers

\* Mutant of MissingRequired: the client's email is not looked at.
MissingRequiredNoEmail(v, r) ==
    IF v = "basic"
    THEN r.GigTitle = "" \/ r.Client = ""
    ELSE r.GigTitle = "" \/ r.Client = "" \/ r.SupplierEmail = ""

\* strings.TrimSpace, over the strings of the input domains.
TrimSpace(str) == IF str = " " THEN "" ELSE str

\* Mutant of MissingRequired: the fields are trimmed before the comparison.
MissingRequiredTrimmed(v, r) ==
    IF v = "basic"
    THEN TrimSpace(r.GigTitle) = "" \/ TrimSpace(r.Client) = ""
         \/ TrimSpace(r.Email) = ""
    ELSE TrimSpace(r.GigTitle) = "" \/ TrimSpace(r.Client) = ""
         \/ TrimSpace(r.ClientEmail) = "" \/ TrimSpace(r.SupplierEmail) = ""

\* Mutant of MissingRequired: rejected only when every field is missing.
MissingRequiredAll(v, r) ==
    IF v = "basic"
    THEN r.GigTitle = "" /\ r.Client = "" /\ r.Email = ""
    ELSE r.GigTitle = "" /\ r.Client = "" /\ r.ClientEmail = ""
         /\ r.SupplierEmail = ""

\* The condition of "Basic Validation": TRUE when the payload is rejected.
MissingRequired(v, r) ==
    IF v = "basic"
    THEN r.GigTitle = "" \/ r.Client = "" \/ r.Email = ""
    ELSE r.GigTitle = "" \/ r.Client = "" \/ r.ClientEmail = ""
         \/ r.SupplierEmail = ""

\* strings.ToLower, over the strings of the input domains.
ToLower(str) == IF str = "S1@x.com" THEN "s1@x.com" ELSE str

\* Mutant of FilterLoop: the comparison ignores case (strings.EqualFold).
RECURSIVE FilterLoopFold(_, _, _)
FilterLoopFold(reqs, f, acc) ==
    IF reqs = <<>>
    THEN acc
    ELSE FilterLoopFold(Tail(reqs), f,
                        IF ToLower(Head(reqs).SupplierEmail) = ToLower(f)
                        THEN GoAppend(acc, Head(reqs))
                        ELSE acc)

\* for _, req := range requests { if req.SupplierEmail == f { append } }
RECURSIVE FilterLoop(_, _, _)
FilterLoop(reqs, f, acc) ==
    IF reqs = <<>>
    THEN acc
    ELSE FilterLoop(Tail(reqs), f,
                    IF Head(reqs).SupplierEmail = f
                    THEN GoAppend(acc, Head(reqs))
                    ELSE acc)

\* Mutant of FilterRequests: the loop stops one record short.
FilterRequestsShort(reqs, f) ==
    IF f # ""
    THEN FilterLoop(SubSeq(reqs, 1, Len(reqs) - 1), f, NilSlice)
    ELSE MakeSlice(reqs)

\* Lines 97-109 of listRequests (supplier variant).
FilterRequests(reqs, f) ==
    IF f # ""
    THEN FilterLoop(reqs, f, NilSlice)
    ELSE MakeSlice(reqs)

\* ------------------------------------------------------ goroutine contexts

\* net/http serves every request in a goroutine of its own.  A context g
\* holds what one running handler owns:
\*   g.pc                   its position in the handler
\*   g.supplierEmailFilter  local of listRequests (supplier variant)
\*   g.body                 the JSON body createRequest has read from r.Body
\*   g.newRequest           local of createRequest
\*   g.filteredRequests     local of listRequests (supplier variant)
\*   g.w                    what it has written to its http.ResponseWriter
\* and two observations made for it:
\*   g.mustSee              the records in `committed` when the listing began
\*   g.seen                 every content the store had since the listing began
\* Goroutines have no identity the program can see, so the running ones are
\* kept as a bag.  When a handler returns, its context is gone.
NoBody == [kind |-> "unread"]

NewGoroutine(p, w) ==
    [pc |-> p, supplierEmailFilter |-> "", body |-> NoBody,
     newRequest |-> ZeroRequest(variant), filteredRequests |-> NilSlice,
     w |-> w, mustSee |-> {}, seen |-> {}]

Range(seq) == {seq[i] : i \in 1..Len(seq)}

Running == DOMAIN goroutines

\* The number of running goroutines whose position is in pcs.
CountAt(pcs) ==
    BagCardinality([g \in {x \in Running : x.pc \in pcs} |-> goroutines[g]])

\* A request arrives and a goroutine starts at g.
Spawn(g) == goroutines' = goroutines (+) SetToBag({g})

\* Goroutine g takes a step and becomes g2.
Step(g, g2) == goroutines' = (goroutines (-) SetToBag({g})) (+) SetToBag({g2})

\* Goroutine g returns from its handler.
Exit(g) == goroutines' = goroutines (-) SetToBag({g})

CreatePcs == {"c_decode", "c_validate", "c_lock", "c_id", "c_time",
              "c_append", "c_incr", "c_unlock", "c_respond"}

ListPcs == {"l_header", "l_lock", "l_filter", "l_encode", "l_unlock"}

\* Between mu.Lock() and mu.Unlock() in createRequest.
InCreateCS(g) == g.pc \in {"c_id", "c_time", "c_append", "c_incr", "c_unlock"}

\* Between mu.Lock() and the deferred mu.Unlock() in listRequests.
InListCS(g) ==
    \/ g.pc \in {"l_filter", "l_encode", "l_unlock"}
    \/ g.pc = "l_header" /\ variant = "supplier"

\* Creations admitted so far: stored, or on their way to the store.
Admitted == Len(requests)
            + CountAt({"c_decode", "c_validate", "c_lock", "c_id", "c_time",
                       "c_append"})

\* ------------------------------------------------------------------- Init

Init ==
    /\ variant \in {"basic", "supplier"}
    /\ requests = <<>>
    /\ mu = FALSE
    /\ nextID = 1
    /\ now = 1
    /\ goroutines = EmptyBag
    /\ returned = EmptyBag
    /\ committed = <<>>

\* ---------------------------------------------------------------- actions

store == <<requests, mu, nextID>>

\* CORSHandler: an OPTIONS request is answered with 200 and nothing else.
CORSPreflight(limit) ==
    /\ BagCardinality(goroutines) < limit
    /\ Spawn(NewGoroutine("return", WriteHeader(NoResponse, StatusOK)))
    /\ UNCHANGED <<variant, store, now, returned, committed>>

\* RequestsHandler, default branch of the switch.
MethodNotAllowed(limit) ==
    /\ BagCardinality(goroutines) < limit
    /\ \E m \in Methods \ {"GET", "POST", "OPTIONS"} :
         Spawn(NewGoroutine("return",
                            HttpError(NoResponse, "Method not allowed",
                                      StatusMethodNotAllowed)))
    /\ UNCHANGED <<variant, store, now, returned, committed>>

\* RequestsHandler, case "GET": listRequests begins.  The supplier variant
\* reads the supplier_email query parameter; the basic variant reads nothing.
BeginList(in, limit) ==
    /\ BagCardinality(goroutines) < limit
    /\ \E f \in in.filter :
         Spawn([NewGoroutine(IF variant = "basic" THEN "l_header" ELSE "l_lock",
                             NoResponse)
                EXCEPT !.supplierEmailFilter =
                           IF variant = "supplier" THEN f ELSE "",
                       !.mustSee = Range(committed),
                       !.seen = {requests}])
    /\ UNCHANGED <<variant, store, now, returned, committed>>

\* w.Header().Set("Content-Type", ...); w.WriteHeader(http.StatusOK)
ListHeader(g) ==
    /\ g.pc = "l_header"
    /\ Step(g, [g EXCEPT !.w = WriteHeader(g.w, StatusOK),
                         !.pc = IF variant = "basic" THEN "l_lock"
                                ELSE "l_encode"])
    /\ UNCHANGED <<variant, store, now, returned, committed>>

\* Mutant of ListLock: the listing reads without waiting for the lock.
ListLockNoWait(g) ==
    /\ g.pc = "l_lock"
    /\ mu' = TRUE
    /\ Step(g, [g EXCEPT !.pc = IF variant = "basic" THEN "l_encode"
                                ELSE "l_filter"])
    /\ UNCHANGED <<variant, requests, nextID, now, returned, committed>>

\* mu.Lock() of listRequests.
ListLock(g) ==
    /\ g.pc = "l_lock"
    /\ mu = FALSE
    /\ mu' = TRUE
    /\ Step(g, [g EXCEPT !.pc = IF variant = "basic" THEN "l_encode"
                                ELSE "l_filter"])
    /\ UNCHANGED <<variant, requests, nextID, now, returned, committed>>

\* Mutant of ListFilter: the filter is done in place (requests[:0]), over
\* the store's own array.
ListFilterInPlace(g) ==
    /\ g.pc = "l_filter"
    /\ LET out == FilterRequests(requests, g.supplierEmailFilter)
       IN /\ requests' = out.items
                           \o SubSeq(requests, Len(out.items) + 1, Len(requests))
          /\ Step(g, [g EXCEPT !.filteredRequests = out, !.pc = "l_header"])
    /\ UNCHANGED <<variant, mu, nextID, now, returned, committed>>

\* The filter of the supplier variant, lines 97-109.
ListFilter(g) ==
    /\ g.pc = "l_filter"
    /\ Step(g, [g EXCEPT !.filteredRequests =
                             FilterRequests(requests, g.supplierEmailFilter),
                         !.pc = "l_header"])
    /\ UNCHANGED <<variant, store, now, returned, committed>>

\* What listRequests hands to the encoder: the store itself in the basic
\* variant, the local slice in the supplier variant.
ListResult(g) ==
    IF variant = "basic" THEN MakeSlice(requests) ELSE g.filteredRequests

\* json.NewEncoder(w).Encode(...) of listRequests; the encoder fails when
\* the write to the connection fails.  On failure: log, then http.Error.
ListEncode(g) ==
    /\ g.pc = "l_encode"
    /\ \E ok \in BOOLEAN :
         Step(g, [g EXCEPT !.w =
                      IF ok
                      THEN WriteBody(g.w, EncodeSlice(variant, ListResult(g)))
                      ELSE HttpError(LogError(g.w), "Internal Server Error",
                                     StatusInternalServerError),
                           !.pc = "l_unlock"])
    /\ UNCHANGED <<variant, store, now, returned, committed>>

\* listRequests returns: the deferred mu.Unlock() runs.
ListUnlock(g) ==
    /\ g.pc = "l_unlock"
    /\ mu' = FALSE
    /\ Exit(g)
    /\ UNCHANGED <<variant, requests, nextID, now, returned, committed>>

\* RequestsHandler, case "POST": createRequest begins.
BeginCreate(limit) ==
    /\ BagCardinality(goroutines) < limit
    /\ Admitted < MaxRecords
    /\ Spawn(NewGoroutine("c_decode", NoResponse))
    /\ UNCHANGED <<variant, store, now, returned, committed>>

\* Mutant of DecodeFail: the `return` is missing, and createRequest goes on
\* with what the decoder had filled in before it failed.
DecodeFailNoReturn(g) ==
    /\ g.pc = "c_decode"
    /\ \E b \in Bodies(variant, ConcInputs) :
         Step(g, [g EXCEPT !.w = HttpError(g.w, "Invalid request body",
                                           StatusBadRequest),
                           !.newRequest = DecodeRequest(variant, b),
                           !.pc = "c_validate"])
    /\ UNCHANGED <<variant, store, now, returned, committed>>

\* json.NewDecoder(r.Body).Decode(&newRequest) fails: 400, return.
DecodeFail(g) ==
    /\ g.pc = "c_decode"
    /\ Step(g, [g EXCEPT !.w = HttpError(g.w, "Invalid request body",
                                         StatusBadRequest),
                         !.pc = "return"])
    /\ UNCHANGED <<variant, store, now, returned, committed>>

\* json.NewDecoder(r.Body).Decode(&newRequest) succeeds.
DecodeOK(g, in) ==
    /\ g.pc = "c_decode"
    /\ \E b \in Bodies(variant, in) :
         Step(g, [g EXCEPT !.body = b,
                           !.newRequest = DecodeRequest(variant, b),
                           !.pc = "c_validate"])
    /\ UNCHANGED <<variant, store, now, returned, committed>>

\* Basic Validation fails: 400, return.
ValidateReject(g) ==
    /\ g.pc = "c_validate"
    /\ MissingRequired(variant, g.newRequest)
    /\ Step(g, [g EXCEPT !.w = HttpError(g.w, "Missing required fields",
                                         StatusBadRequest),
                         !.pc = "return"])
    /\ UNCHANGED <<variant, store, now, returned, committed>>

\* Basic Validation passes.
ValidateAccept(g) ==
    /\ g.pc = "c_validate"
    /\ ~MissingRequired(variant, g.newRequest)
    /\ Step(g, [g EXCEPT !.pc = "c_lock"])
    /\ UNCHANGED <<variant, store, now, returned, committed>>

\* Mutant of CreateLock: the lock is taken without waiting for its holder.
CreateLockNoWait(g) ==
    /\ g.pc = "c_lock"
    /\ mu' = TRUE
    /\ Step(g, [g EXCEPT !.pc = "c_id"])
    /\ UNCHANGED <<variant, requests, nextID, now, returned, committed>>

\* mu.Lock() of createRequest.
CreateLock(g) ==
    /\ g.pc = "c_lock"
    /\ mu = FALSE
    /\ mu' = TRUE
    /\ Step(g, [g EXCEPT !.pc = "c_id"])
    /\ UNCHANGED <<variant, requests, nextID, now, returned, committed>>

\* Mutant of CreateSetID: an id the caller sent is kept.
CreateSetIDKeep(g) ==
    /\ g.pc = "c_id"
    /\ Step(g, [g EXCEPT !.newRequest.ID = IF g.newRequest.ID # 0
                                            THEN g.newRequest.ID
                                            ELSE nextID,
                         !.pc = "c_time"])
    /\ UNCHANGED <<variant, store, now, returned, committed>>

\* newRequest.ID = nextID
CreateSetID(g) ==
    /\ g.pc = "c_id"
    /\ Step(g, [g EXCEPT !.newRequest.ID = nextID, !.pc = "c_time"])
    /\ UNCHANGED <<variant, store, now, returned, committed>>

\* newRequest.CreatedAt = time.Now(): the clock is read, and has not gone
\* back since it was last read.
CreateSetTime(g, in) ==
    /\ g.pc = "c_time"
    /\ \E t \in {c \in in.clock : c >= now} :
         /\ now' = t
         /\ Step(g, [g EXCEPT !.newRequest.CreatedAt = t, !.pc = "c_append"])
    /\ UNCHANGED <<variant, store, returned, committed>>

\* The running listings take note of a new content of the store.
Observe(g, reqs) ==
    IF g.pc \in ListPcs THEN [g EXCEPT !.seen = g.seen \cup {reqs}] ELSE g

\* Mutant of CreateAppend: the new record is put in front of the others.
CreatePrepend(g) ==
    /\ g.pc = "c_append"
    /\ requests' = <<g.newRequest>> \o requests
    /\ LET others == goroutines (-) SetToBag({g})
           Noted(x) == Observe(x, requests')
       IN goroutines' = BagOfAll(Noted, others)
                          (+) SetToBag({[g EXCEPT !.pc = "c_incr"]})
    /\ UNCHANGED <<variant, mu, nextID, now, returned, committed>>

\* Mutant of CreateAppend: the new record takes the place of the last one.
CreateAppendOverwrite(g) ==
    /\ g.pc = "c_append"
    /\ requests' = IF requests = <<>>
                   THEN <<g.newRequest>>
                   ELSE [requests EXCEPT ![Len(requests)] = g.newRequest]
    /\ LET others == goroutines (-) SetToBag({g})
           Noted(x) == Observe(x, requests')
       IN goroutines' = BagOfAll(Noted, others)
                          (+) SetToBag({[g EXCEPT !.pc = "c_incr"]})
    /\ UNCHANGED <<variant, mu, nextID, now, returned, committed>>

\* requests = append(requests, newRequest)
CreateAppend(g) ==
    /\ g.pc = "c_append"
    /\ requests' = Append(requests, g.newRequest)
    /\ LET others == goroutines (-) SetToBag({g})
           Noted(x) == Observe(x, requests')
       IN goroutines' = BagOfAll(Noted, others)
                          (+) SetToBag({[g EXCEPT !.pc = "c_incr"]})
    /\ UNCHANGED <<variant, mu, nextID, now, returned, committed>>

\* nextID++
CreateIncr(g) ==
    /\ g.pc = "c_incr"
    /\ nextID' = nextID + 1
    /\ Step(g, [g EXCEPT !.pc = "c_unlock"])
    /\ UNCHANGED <<variant, requests, mu, now, returned, committed>>

\* Mutant of CreateUnlock: createRequest goes on without releasing mu.
CreateUnlockForgotten(g) ==
    /\ g.pc = "c_unlock"
    /\ committed' = Append(committed, g.newRequest)
    /\ Step(g, [g EXCEPT !.pc = "c_respond"])
    /\ UNCHANGED <<variant, requests, mu, nextID, now, returned>>

\* mu.Unlock() of createRequest.
CreateUnlock(g) ==
    /\ g.pc = "c_unlock"
    /\ mu' = FALSE
    /\ committed' = Append(committed, g.newRequest)
    /\ Step(g, [g EXCEPT !.pc = "c_respond"])
    /\ UNCHANGED <<variant, requests, nextID, now, returned>>

\* Mutant of CreateRespond: the answer is the last record of the store.
CreateRespondLast(g) ==
    /\ g.pc = "c_respond"
    /\ \E ok \in BOOLEAN :
         Step(g, [g EXCEPT !.w =
                      IF ok
                      THEN WriteBody(WriteHeader(g.w, StatusCreated),
                                     EncodeRequest(variant,
                                                   requests[Len(requests)]))
                      ELSE LogError(WriteHeader(g.w, StatusCreated)),
                           !.pc = "return"])
    /\ returned' = returned (+) SetToBag({g.newRequest.ID})
    /\ UNCHANGED <<variant, store, now, committed>>

\* log.Printf(...); WriteHeader(201); Encode(newRequest).  A failed encode
\* is logged and nothing else.
CreateRespond(g) ==
    /\ g.pc = "c_respond"
    /\ \E ok \in BOOLEAN :
         Step(g, [g EXCEPT !.w =
                      IF ok
                      THEN WriteBody(WriteHeader(g.w, StatusCreated),
                                     EncodeRequest(variant, g.newRequest))
                      ELSE LogError(WriteHeader(g.w, StatusCreated)),
                           !.pc = "return"])
    /\ returned' = returned (+) SetToBag({g.newRequest.ID})
    /\ UNCHANGED <<variant, store, now, committed>>

\* A handler with nothing deferred returns; the response is complete.
Return(g) ==
    /\ g.pc = "return"
    /\ Exit(g)
    /\ UNCHANGED <<variant, store, now, returned, committed>>

\* A request arrives, drawn from the inputs `in`, while fewer than `limit`
\* goroutines are running.
Arrive(in, limit) ==
    \/ CORSPreflight(limit)
    \/ MethodNotAllowed(limit)
    \/ BeginList(in, limit)
    \/ BeginCreate(limit)

\* One step of one of the running goroutines.
Run(in) ==
    \/ \E g \in Running : ListHeader(g)
    \/ \E g \in Running : ListLock(g)
    \/ \E g \in Running : ListFilter(g)
    \/ \E g \in Running : ListEncode(g)
    \/ \E g \in Running : ListUnlock(g)
    \/ \E g \in Running : DecodeFail(g)
    \/ \E g \in Running : DecodeOK(g, in)
    \/ \E g \in Running : ValidateReject(g)
    \/ \E g \in Running : ValidateAccept(g)
    \/ \E g \in Running : CreateLock(g)
    \/ \E g \in Running : CreateSetID(g)
    \/ \E g \in Running : CreateSetTime(g, in)
    \/ \E g \in Running : CreateAppend(g)
    \/ \E g \in Running : CreateIncr(g)
    \/ \E g \in Running : CreateUnlock(g)
    \/ \E g \in Running : CreateRespond(g)
    \/ \E g \in Running : Return(g)

\* Requests served concurrently, up to NumHandlers at a time.
Next ==
    \/ Arrive(ConcInputs, NumHandlers)
    \/ Run(ConcInputs)

Spec == Init /\ [][Next]_vars

\* Requests served one at a time, over the whole input domain.
SeqNext ==
    \/ Arrive(SeqInputs, 1)
    \/ Run(SeqInputs)

SeqSpec == Init /\ [][SeqNext]_vars

\* What the Go runtime guarantees to the goroutines.  The scheduler is
\* preemptive: a goroutine that can run its next in-memory statement does
\* run it (weak fairness).  sync.Mutex hands the lock to a goroutine that
\* has waited long enough (starvation mode), so a goroutine that finds mu
\* free again and again does get it (strong fairness).  Reading the request
\* body and writing the response wait on the client, and the server sets no
\* deadline (http.ListenAndServe): nothing is guaranteed for DecodeOK,
\* DecodeFail, ListEncode and CreateRespond.
Scheduling ==
    /\ WF_vars(\E g \in Running : ListHeader(g))
    /\ SF_vars(\E g \in Running : ListLock(g))
    /\ WF_vars(\E g \in Running : ListFilter(g))
    /\ WF_vars(\E g \in Running : ListUnlock(g))
    /\ WF_vars(\E g \in Running : ValidateReject(g))
    /\ WF_vars(\E g \in Running : ValidateAccept(g))
    /\ SF_vars(\E g \in Running : CreateLock(g))
    /\ WF_vars(\E g \in Running : CreateSetID(g))
    /\ WF_vars(\E g \in Running : CreateSetTime(g, ConcInputs))
    /\ WF_vars(\E g \in Running : CreateAppend(g))
    /\ WF_vars(\E g \in Running : CreateIncr(g))
    /\ WF_vars(\E g \in Running : CreateUnlock(g))
    /\ WF_vars(\E g \in Running : Return(g))

\* Requests served concurrently by fairly scheduled goroutines.
FairSpec == Spec /\ Scheduling

\* ================================================================ claims

\* What a claim may say about a listing: the listing g has written its
\* result (the encoder did not fail) and is about to return.
Listed(g) ==
    /\ g.pc = "l_unlock"
    /\ g.w.body # <<>>
    /\ g.w.body[1].kind \in {"array", "null"}

\* The JSON objects of a listing's result, in order; `null` has none.
ItemsOf(g) ==
    IF g.w.body[1].kind = "array" THEN g.w.body[1].items ELSE <<>>

IsPrefix(s, t) == Len(s) <= Len(t) /\ s = SubSeq(t, 1, Len(s))

\* Creations that have appended and not yet answered.
Unanswered == CountAt({"c_incr", "c_unlock", "c_respond"})

\* C1 - Uniqueness of ids.  The ids held in the store are exactly
\* 1..Len(requests), each held by one record; no id is returned to two
\* callers, every returned id is in the store, and once every creation that
\* appended has answered, the returned ids are exactly 1..Len(requests).
C1_UniqueIds ==
    /\ {requests[i].ID : i \in 1..Len(requests)} = 1..Len(requests)
    /\ \A i, j \in 1..Len(requests) : requests[i].ID = requests[j].ID => i = j
    /\ \A id \in BagToSet(returned) : CopiesIn(id, returned) = 1
    /\ BagToSet(returned) \subseteq 1..Len(requests)
    /\ Unanswered = 0 => BagToSet(returned) = 1..Len(requests)

\* Two creations that ran concurrently have both succeeded, with ids 1 and 2.
C1_Witness ==
    /\ Len(requests) = 2
    /\ BagToSet(returned) = {1, 2}
    /\ \E g1, g2 \in Running :
         /\ g1.pc = "return" /\ g1.w.status = StatusCreated
         /\ g2.pc = "return" /\ g2.w.status = StatusCreated
         /\ g1.newRequest.ID = 1 /\ g2.newRequest.ID = 2

\* C4 - Order preservation.  The k-th record of the store has id k, the
\* store is in the order in which the creations completed (released mu), and
\* every listing, filtered or not, returns stored records in ascending id
\* order, that is in the relative order they have in the store.
C4_OrderPreserved ==
    /\ \A k \in 1..Len(requests) : requests[k].ID = k
    /\ IsPrefix(committed, requests)
    /\ \A g \in Running :
         Listed(g) =>
           LET items == ItemsOf(g)
           IN /\ \A k \in 1..Len(items) :
                   /\ items[k].fields.id \in 1..Len(requests)
                   /\ items[k] = EncodeRequest(variant,
                                               requests[items[k].fields.id])
              /\ \A k, m \in 1..Len(items) :
                   k < m => items[k].fields.id < items[m].fields.id

\* A listing returns two records while another request is being served.
C4_Witness ==
    \E g \in Running :
      /\ Listed(g)
      /\ Len(ItemsOf(g)) = 2
      /\ BagCardinality(goroutines) = 2

\* C6 - Counter and collection move together.  Whenever no createRequest is
\* inside its critical section, and whenever a listing is inside its own,
\* nextID = Len(requests) + 1; every record a listing returns carries an id
\* of the store and a createdAt read from the clock.
C6_CounterMatchesStore ==
    /\ CountAt({"c_id", "c_time", "c_append", "c_incr", "c_unlock"}) = 0
         => nextID = Len(requests) + 1
    /\ \A g \in Running : InListCS(g) => nextID = Len(requests) + 1
    /\ \A g \in Running :
         Listed(g) =>
           \A k \in 1..Len(ItemsOf(g)) :
             /\ ItemsOf(g)[k].fields.id \in 1..(nextID - 1)
             /\ ItemsOf(g)[k].fields.created_at \in SeqInputs.clock

\* A listing reads a store of one record while a creation waits for the lock.
C6_Witness ==
    /\ Len(requests) = 1
    /\ \E g \in Running : Listed(g) /\ Len(ItemsOf(g)) = 1
    /\ \E g \in Running : g.pc = "c_lock"

\* The mandatory fields of a creation payload, as the claims name them.
Mandatory ==
    IF variant = "basic"
    THEN {"GigTitle", "Client", "Email"}
    ELSE {"GigTitle", "Client", "ClientEmail", "SupplierEmail"}

SomeMandatoryEmpty(r) == \E f \in Mandatory : r[f] = ""

\* The keys of a creation payload that the caller owns.
PayloadKeys ==
    IF variant = "basic"
    THEN {"gig_title", "client", "email", "details"}
    ELSE {"gig_title", "client", "client_email", "supplier_email", "details"}

\* Goroutine g takes the step, and g2 is what it becomes.
Stepped(g) == CopiesIn(g, goroutines') < CopiesIn(g, goroutines)
Became(g2) == CopiesIn(g2, goroutines') > CopiesIn(g2, goroutines)

\* MatchesFilter of the spec: the supplier filter f admits record r.
Matches(r, f) == f = "" \/ r.SupplierEmail = f

\* C2 - Validation gate.  When createRequest validates a payload with an
\* empty mandatory field it answers 400 and goes to its return, and neither
\* that step nor the return changes requests or nextID.
C2_ValidationGate ==
    [][\A g \in Running :
         /\ (g.pc = "c_validate" /\ SomeMandatoryEmpty(g.newRequest)
               /\ Stepped(g))
              => /\ requests' = requests
                 /\ nextID' = nextID
                 /\ \E g2 \in DOMAIN goroutines' :
                      /\ Became(g2)
                      /\ g2.pc = "return"
                      /\ g2.w.status = StatusBadRequest
                      /\ g2.newRequest = g.newRequest
         /\ (g.pc = "return" /\ g.w.status = StatusBadRequest /\ Stepped(g))
              => /\ requests' = requests
                 /\ nextID' = nextID
                 /\ goroutines' = goroutines (-) SetToBag({g})]_vars

\* After one creation, a payload with an empty mandatory field has been
\* answered 400 and the store still holds the one record.
C2_Witness ==
    /\ Len(requests) = 1
    /\ nextID = 2
    /\ \E g \in Running :
         /\ g.pc = "return"
         /\ g.body # NoBody
         /\ SomeMandatoryEmpty(g.newRequest)
         /\ g.w.status = StatusBadRequest

\* C3 - Filter correctness (supplier variant).  A listing with filter F
\* returns the stored record R iff F is empty or R.SupplierEmail = F, by
\* exact string equality, and returns nothing that is not stored.
C3_FilterCorrect ==
    variant = "supplier" =>
      \A g \in Running :
        Listed(g) =>
          LET items == Range(ItemsOf(g))
              stored == {EncodeRequest(variant, requests[i]) :
                           i \in 1..Len(requests)}
          IN /\ items \subseteq stored
             /\ \A i \in 1..Len(requests) :
                  EncodeRequest(variant, requests[i]) \in items
                    <=> Matches(requests[i], g.supplierEmailFilter)

\* The store holds a record of "s1@x.com" and one of "S1@x.com"; the filter
\* "s1@x.com" returns one of the two.
C3_Witness ==
    /\ variant = "supplier"
    /\ {requests[i].SupplierEmail : i \in 1..Len(requests)}
         = {"s1@x.com", "S1@x.com"}
    /\ \E g \in Running :
         /\ Listed(g)
         /\ g.supplierEmailFilter = "s1@x.com"
         /\ Len(ItemsOf(g)) = 1

\* C5 - Read-after-write visibility.  A listing returns every record whose
\* creator had released mu before the listing began and that matches the
\* listing's filter.
C5_ReadAfterWrite ==
    \A g \in Running :
      Listed(g) =>
        \A r \in g.mustSee :
          Matches(r, g.supplierEmailFilter)
            => EncodeRequest(variant, r) \in Range(ItemsOf(g))

\* A filtered listing that began after a matching creation had completed
\* returns, while a later creation is under way.
C5_Witness ==
    \E g \in Running :
      /\ Listed(g)
      /\ g.supplierEmailFilter # ""
      /\ \E r \in g.mustSee : Matches(r, g.supplierEmailFilter)
      /\ \E c \in Running : c.pc \in CreatePcs

\* C7 as stated - a payload with a mandatory field of whitespace only is
\* rejected and creates no record: no goroutine past validation and no
\* stored record has a mandatory field that trims to the empty string.
C7_WhitespaceRejected ==
    /\ \A i \in 1..Len(requests) :
         \A f \in Mandatory : TrimSpace(requests[i][f]) # ""
    /\ \A g \in Running :
         g.pc \in CreatePcs \ {"c_decode", "c_validate"}
           => \A f \in Mandatory : TrimSpace(g.newRequest[f]) # ""

\* C7 as amended - validation compares each mandatory field with the empty
\* string exactly: a payload passes validation iff every mandatory field
\* differs from "", whitespace included.
C7_ExactEmptyComparison ==
    [][\A g \in Running :
         (g.pc = "c_validate" /\ Stepped(g))
           => ((\A f \in Mandatory : g.newRequest[f] # "")
                <=> \E g2 \in DOMAIN goroutines' :
                      /\ Became(g2)
                      /\ g2.pc = "c_lock"
                      /\ g2.newRequest = g.newRequest
                      /\ g2.w = g.w)]_vars

\* A record whose gig title is a single space is in the store.
C7_Witness ==
    \E i \in 1..Len(requests) : requests[i].GigTitle = " "

\* C8 - Empty listing is an empty sequence.  A listing over an empty store,
\* or with a filter that matches no stored record, answers 200 with the
\* empty JSON array.
C8_EmptyListIsEmptyArray ==
    \A g \in Running :
      (/\ Listed(g)
       /\ \A i \in 1..Len(requests) :
            ~Matches(requests[i], g.supplierEmailFilter))
        => /\ g.w.status = StatusOK
           /\ g.w.body = <<[kind |-> "array", items |-> <<>>]>>

\* C9 - Creation result equals the stored record.  A createRequest that
\* passed validation answers 201, and the record it answers with has an id
\* of the store, is the stored record of that id, carries the id and the
\* createdAt this goroutine set under the lock, and echoes the payload.
C9_ResultIsStoredRecord ==
    \A g \in Running :
      (g.pc = "return" /\ g.body # NoBody /\ ~SomeMandatoryEmpty(g.newRequest))
        => /\ g.w.status = StatusCreated
           /\ g.w.body # <<>> =>
                LET out == g.w.body[1]
                IN /\ out.kind = "object"
                   /\ out.fields.id \in 1..Len(requests)
                   /\ out = EncodeRequest(variant, requests[out.fields.id])
                   /\ out.fields.id = g.newRequest.ID
                   /\ out.fields.created_at = g.newRequest.CreatedAt
                   /\ out.fields.created_at \in SeqInputs.clock
                   /\ \A k \in PayloadKeys : out.fields[k] = g.body[k]

\* The creator of record 1 answers after record 2 has been stored.
C9_Witness ==
    /\ Len(requests) = 2
    /\ \E g \in Running :
         /\ g.pc = "return"
         /\ g.w.status = StatusCreated
         /\ g.w.body # <<>>
         /\ g.w.body[1].fields.id = 1

\* C10 - Linearizable snapshots.  Every content the store had while a
\* listing ran is a prefix of the present store, and the listing's result
\* is the filter applied to one of them.
C10_LinearizableSnapshot ==
    \A g \in Running :
      Listed(g) =>
        /\ \A s \in g.seen : IsPrefix(s, requests)
        /\ \E s \in g.seen :
             LET Admit(r) == Matches(r, g.supplierEmailFilter)
                 sel == SelectSeq(s, Admit)
             IN ItemsOf(g) = [k \in 1..Len(sel) |->
                                EncodeRequest(variant, sel[k])]

\* A listing that began on an empty store returns the record that was
\* appended while it waited for the lock.
C10_Witness ==
    \E g \in Running :
      /\ Listed(g)
      /\ <<>> \in g.seen
      /\ Cardinality(g.seen) = 2
      /\ Len(ItemsOf(g)) = 1

\* C11 - No external I/O inside the critical section.  A step a handler
\* takes while it holds mu writes nothing to its http.ResponseWriter: no
\* status line, no body, nothing that waits on the client.
C11_NoIOInCriticalSection ==
    [][\A g \in Running :
         ((InListCS(g) \/ InCreateCS(g)) /\ Stepped(g))
           => \A g2 \in DOMAIN goroutines' : Became(g2) => g2.w = g.w]_vars

\* The encoder of g failed: a listing about to return that wrote no result,
\* or an accepted creation about to return that wrote no record.
EncodeFailed(g) ==
    \/ g.pc = "l_unlock" /\ ~Listed(g)
    \/ /\ g.pc = "return"
       /\ g.body # NoBody
       /\ ~SomeMandatoryEmpty(g.newRequest)
       /\ g.w.body = <<>>

\* C12 - Encoding failure is surfaced as an internal fault.  A handler whose
\* encoder failed answers with status 500 and has logged the failure.
C12_EncodeFailureIs500 ==
    \A g \in Running :
      EncodeFailed(g) => /\ g.w.status = StatusInternalServerError
                         /\ g.w.logged

\* Goroutine g holds mu.
HoldsMu(g) == InCreateCS(g) \/ InListCS(g)

\* The number of running goroutines that hold mu.
Holders ==
    BagCardinality([g \in {x \in Running : HoldsMu(x)} |-> goroutines[g]])

\* The positions whose statement reads or writes requests or nextID.
AccessPcs == {"l_filter", "l_encode", "c_id", "c_append", "c_incr"}

\* C13 - Mutual exclusion and lock discipline.  At most one goroutine is in
\* a critical section of mu, mu is locked exactly when one is, every
\* goroutine about to read or write requests or nextID holds mu, and every
\* step that changes requests or nextID is taken by the goroutine that holds
\* mu.
C13_MutualExclusion ==
    /\ [](/\ Holders <= 1
          /\ mu <=> Holders = 1
          /\ \A g \in Running : g.pc \in AccessPcs => HoldsMu(g))
    /\ [][(requests' # requests \/ nextID' # nextID)
            => mu /\ \E g \in Running : InCreateCS(g) /\ Stepped(g)]_vars

\* A creation is in its critical section while a listing waits for mu.
C13_Witness ==
    /\ mu
    /\ \E g \in Running : g.pc = "c_append"
    /\ \E g \in Running : g.pc = "l_lock"

\* C14 - Append-only, immutable records.  Every step leaves the store as it
\* was or appends one record at its end: the records already stored keep
\* their position, id, createdAt and fields; nextID never decreases.
C14_AppendOnly ==
    [][/\ IsPrefix(requests, requests')
       /\ Len(requests') <= Len(requests) + 1
       /\ nextID' >= nextID]_vars

\* The store holds two records, of ids 1 and 2, and both creators have
\* released mu.
C14_Witness ==
    /\ Len(requests) = 2
    /\ committed = requests
    /\ nextID = 3
    /\ requests[1].ID = 1 /\ requests[2].ID = 2

\* C16 - Store-assigned id and createdAt.  The record a creation appends
\* is its payload with id = nextID and createdAt = the clock as read in the
\* critical section; whatever "id" and "created_at" the caller sent, the
\* stored and the returned record carry the store's values, never the
\* caller's.
C16_StoreAssignedIdAndTime ==
    /\ [](/\ \A i \in 1..Len(requests) :
               /\ requests[i].ID = i
               /\ requests[i].ID \notin SeqInputs.id
               /\ requests[i].CreatedAt \in SeqInputs.clock
               /\ requests[i].CreatedAt \notin SeqInputs.created_at
          /\ \A g \in Running :
               (g.pc = "return" /\ g.w.status = StatusCreated
                  /\ g.w.body # <<>>)
                 => /\ g.w.body[1].fields.id = g.newRequest.ID
                    /\ g.w.body[1].fields.id \notin SeqInputs.id
                    /\ g.w.body[1].fields.created_at = g.newRequest.CreatedAt
                    /\ g.w.body[1].fields.created_at
                         \notin SeqInputs.created_at)
    /\ [][\A g \in Running :
            (g.pc = "c_append" /\ Stepped(g))
              => /\ requests' = Append(requests, g.newRequest)
                 /\ g.newRequest.ID = nextID
                 /\ g.newRequest.CreatedAt = now
                 /\ g.newRequest =
                      [DecodeRequest(variant, g.body)
                         EXCEPT !.ID = nextID, !.CreatedAt = now]]_vars

\* A caller that sent "id": 7 and "created_at": 9 is answered with the
\* record of id 2, the second of the store.
C16_Witness ==
    /\ Len(requests) = 2
    /\ \E g \in Running :
         /\ g.pc = "return"
         /\ g.body # NoBody
         /\ g.body.id = 7
         /\ g.body.created_at = 9
         /\ g.w.status = StatusCreated
         /\ g.w.body # <<>>
         /\ g.w.body[1].fields.id = 2

\* C17 - Stored records have their mandatory fields.  No stored record has
\* a mandatory field equal to the empty string; in the supplier variant no
\* stored record has an empty SupplierEmail, so no stored record can equal
\* the empty filter.
C17_StoredMandatoryNonEmpty ==
    /\ \A i \in 1..Len(requests) : ~SomeMandatoryEmpty(requests[i])
    /\ variant = "supplier"
         => \A i \in 1..Len(requests) : requests[i].SupplierEmail # ""

\* In the supplier variant, with a record stored, a payload whose only
\* missing mandatory field is supplier_email has been refused.
C17_Witness ==
    /\ variant = "supplier"
    /\ Len(requests) = 1
    /\ \E g \in Running :
         /\ g.pc = "return"
         /\ g.body # NoBody
         /\ g.newRequest.SupplierEmail = ""
         /\ g.newRequest.GigTitle # ""
         /\ g.newRequest.Client # ""
         /\ g.newRequest.ClientEmail # ""
         /\ g.w.status = StatusBadRequest

\* The request of g was refused before its body was decoded: an OPTIONS
\* request, a method other than GET and POST, or a POST whose body failed to
\* decode.  It has been answered and no payload was read.
Refused(g) == g.pc \notin ListPcs /\ g.body = NoBody /\ g.w.status # 0

\* C18 - A request that is not an accepted creation never touches the store.
\* A refused request is answered 200 (OPTIONS), 405 or 400 and goes to its
\* return; the step that answers it and its return leave requests, nextID
\* and mu as they were.
C18_RefusedLeavesStore ==
    /\ [](\A g \in Running :
            Refused(g) => /\ g.pc = "return"
                          /\ g.w.status \in {StatusOK, StatusMethodNotAllowed,
                                             StatusBadRequest})
    /\ [][/\ \A g2 \in DOMAIN goroutines' :
               (Became(g2) /\ Refused(g2)) => UNCHANGED <<requests, nextID, mu>>
          /\ \A g \in Running :
               (Stepped(g) /\ Refused(g))
                 => /\ UNCHANGED <<requests, nextID, mu>>
                    /\ goroutines' = goroutines (-) SetToBag({g})]_vars

\* A POST whose body failed to decode has been answered 400 while a creation
\* holds mu and is about to append the second record.
C18_Witness ==
    /\ Len(requests) = 1
    /\ mu
    /\ \E g \in Running : g.pc = "c_append"
    /\ \E g \in Running :
         Refused(g) /\ g.w.status = StatusBadRequest

\* C19 - listRequests is read-only.  No step of a listing, from its start
\* to its return and whatever its filter, changes requests or nextID.
C19_ListIsReadOnly ==
    [][(\E g \in Running \cup DOMAIN goroutines' : g.pc \in ListPcs)
         => /\ requests' = requests
            /\ nextID' = nextID]_vars

\* In the supplier variant an unfiltered listing, whose result is the
\* store's own slice, has returned the two records of the store.
C19_Witness ==
    /\ variant = "supplier"
    /\ Len(requests) = 2
    /\ nextID = 3
    /\ \E g \in Running :
         /\ Listed(g)
         /\ g.supplierEmailFilter = ""
         /\ Len(ItemsOf(g)) = 2

\* Some running goroutine can take a step.
CanStep ==
    \E g \in Running : g.pc \in {"c_lock", "l_lock"} => ~mu

\* C15 - No operation blocks indefinitely.  Under fair scheduling mu, once
\* taken, is released; while a goroutine runs some goroutine can take a
\* step; while a validated creation waits for mu the store comes to grow;
\* and a listing that waits for mu comes to have it.
C15_NoIndefiniteBlocking ==
    /\ mu ~> ~mu
    /\ [](Running # {} => CanStep)
    /\ \A n \in 0..MaxRecords :
         ((\E g \in Running : g.pc = "c_lock") /\ Len(requests) = n)
           ~> (Len(requests) > n)
    /\ (\E g \in Running : g.pc = "l_lock")
         ~> (\E g \in Running : InListCS(g))

====
